---- MODULE Spec2Model ----
(***************************************************************************)
(* Model of charon/payloads/transform_attribute.c: one IKEv2 transform     *)
(* attribute (private_transform_attribute_t), the allocator's value        *)
(* buffers it owns, and the table driven generator/parser that walks       *)
(* transform_attribute_encodings.                                          *)
(***************************************************************************)
EXTENDS Integers, Sequences, FiniteSets, TLC

(* ------------------------------ bounds -------------------------------- *)

\* longest value chunk handed to set_value
MaxLen == 4
\* number of value buffers the allocator hands out in one run
MaxAllocs == 3

\* first bytes of the value chunks handed to set_value
ByteSeeds == {0, 1, 170}
\* the types handed to set_attribute_type (16 bit, with and without bit 15)
TypeVals == {0, 5, 32767, 32768, 32773, 65535}

(* ----------------------------- constants ------------------------------ *)

NULL == 0
TYPE_MASK == 32767
U16 == 65536
HEADER_LENGTH == 4

(* ------------------------------ helpers ------------------------------- *)

\* the chunk of n bytes s, s+1, s+2, ...
Pattern(s, n) == [i \in 1..n |-> (s + i - 1) % 256]

\* the chunks a caller passes as value
Values == { Pattern(s, n) : s \in ByteSeeds, n \in 0..MaxLen }

RECURSIVE BitAnd(_, _)
\* a & b on unsigned integers
BitAnd(a, b) ==
    IF a = 0 \/ b = 0 THEN 0
    ELSE (a % 2) * (b % 2) + 2 * BitAnd(a \div 2, b \div 2)

VARIABLES
    attribute_format,           \* bool: TRUE = value inline, FALSE = value in attribute_value
    attribute_type,             \* u_int16_t
    attribute_length_or_value,  \* u_int16_t, as a number
    attribute_value,            \* chunk_t: [ptr, len], ptr = NULL or a heap address
    heap,                       \* the allocator's value buffers, by address 1..Len(heap)
    alive,                      \* the attribute itself is allocated (not yet destroyed)
    big_endian,                 \* byte order of the host the code was built for
    last                        \* the last call: [op, arg, ret]

vars == <<attribute_format, attribute_type, attribute_length_or_value,
          attribute_value, heap, alive, big_endian, last>>

\* the two bytes of a u_int16_t as they lie in memory
u16_bytes(n) ==
    IF big_endian THEN <<n \div 256, n % 256>> ELSE <<n % 256, n \div 256>>

\* the u_int16_t read from two bytes of memory
u16_value(m) ==
    IF big_endian THEN m[1] * 256 + m[2] ELSE m[2] * 256 + m[1]

\* a copy that zeroes the bytes of the field it does not write
memcpy_u16_zero_fill(field, src, n) ==
    u16_value([i \in 1..2 |-> IF i <= n THEN src[i] ELSE 0])

\* memcpy(&field, src, n) for a two byte field and n <= 2
memcpy_u16(field, src, n) ==
    u16_value([i \in 1..2 |-> IF i <= n THEN src[i] ELSE u16_bytes(field)[i]])

\* allocator_free(ptr)
allocator_free(h, ptr) ==
    [h EXCEPT ![ptr] = [live |-> FALSE, frees |-> @.frees + 1, bytes |-> <<>>]]

\* allocator_clone_bytes(ptr, len): a new buffer holding a copy, or NULL
allocator_clone_bytes(h, bytes, ok) ==
    IF ok
    THEN [ptr |-> Len(h) + 1,
          heap |-> Append(h, [live |-> TRUE, frees |-> 0, bytes |-> bytes])]
    ELSE [ptr |-> NULL, heap |-> h]

\* the bytes a chunk [ptr, len] refers to
chunk_bytes(c) ==
    IF c.ptr = NULL THEN <<>> ELSE SubSeq(heap[c.ptr].bytes, 1, c.len)

(* ------------------------------- state -------------------------------- *)

\* a create that leaves the format flag FALSE
Init_format_false ==
    /\ attribute_format = FALSE
    /\ attribute_type = 0
    /\ attribute_length_or_value = 0
    /\ attribute_value = [ptr |-> NULL, len |-> 0]
    /\ heap = <<>>
    /\ alive = TRUE
    /\ big_endian \in BOOLEAN
    /\ last = [op |-> "create", arg |-> <<>>, ret |-> "SUCCESS"]

Init ==
    /\ attribute_format = TRUE
    /\ attribute_type = 0
    /\ attribute_length_or_value = 0
    /\ attribute_value = [ptr |-> NULL, len |-> 0]
    /\ heap = <<>>
    /\ alive = TRUE
    /\ big_endian \in BOOLEAN
    /\ last = [op |-> "create", arg |-> <<>>, ret |-> "SUCCESS"]

(* ----------------------------- operations ----------------------------- *)

\* free_existing that frees the buffer and keeps the pointer to it
free_existing_dangling(av, h) ==
    IF av.ptr # NULL
    THEN [av |-> [ptr |-> av.ptr, len |-> 0], heap |-> allocator_free(h, av.ptr)]
    ELSE [av |-> av, heap |-> h]

\* free_existing that forgets the buffer without freeing it
free_existing_leak(av, h) ==
    IF av.ptr # NULL
    THEN [av |-> [ptr |-> NULL, len |-> 0], heap |-> h]
    ELSE [av |-> av, heap |-> h]

\* free_existing that resets the pointer and keeps the length
free_existing_keeps_len(av, h) ==
    IF av.ptr # NULL
    THEN [av |-> [ptr |-> NULL, len |-> av.len], heap |-> allocator_free(h, av.ptr)]
    ELSE [av |-> av, heap |-> h]

\* set_value, "free existing value": the chunk and the heap afterwards
free_existing(av, h) ==
    IF av.ptr # NULL
    THEN [av |-> [ptr |-> NULL, len |-> 0], heap |-> allocator_free(h, av.ptr)]
    ELSE [av |-> av, heap |-> h]

\* set_value that clones the new value before it frees the old buffer
set_value_clone_first(value, clone_ok) ==
    /\ alive
    /\ IF Len(value) > 2
       THEN /\ clone_ok => Len(heap) < MaxAllocs
            /\ LET cl == allocator_clone_bytes(heap, value, clone_ok) IN
               IF cl.ptr = NULL
               THEN /\ UNCHANGED <<attribute_value, heap, attribute_format,
                                   attribute_length_or_value>>
                    /\ last' = [op |-> "set_value", arg |-> value, ret |-> "OUT_OF_RES"]
               ELSE /\ attribute_value' = [ptr |-> cl.ptr, len |-> Len(value)]
                    /\ heap' = free_existing(attribute_value, cl.heap).heap
                    /\ attribute_length_or_value' = Len(value) % U16
                    /\ attribute_format' = FALSE
                    /\ last' = [op |-> "set_value", arg |-> value, ret |-> "SUCCESS"]
       ELSE /\ clone_ok
            /\ attribute_length_or_value' =
                   memcpy_u16(attribute_length_or_value, value, Len(value))
            /\ attribute_value' = free_existing(attribute_value, heap).av
            /\ heap' = free_existing(attribute_value, heap).heap
            /\ UNCHANGED attribute_format
            /\ last' = [op |-> "set_value", arg |-> value, ret |-> "SUCCESS"]
    /\ UNCHANGED <<attribute_type, alive, big_endian>>

\* set_value whose copy into the 16 bit field runs over into attribute_type
set_value_clobbers_type(value, clone_ok) ==
    /\ alive
    /\ LET rel == free_existing(attribute_value, heap) IN
       IF Len(value) > 2
       THEN /\ clone_ok => Len(heap) < MaxAllocs
            /\ LET cl == allocator_clone_bytes(rel.heap, value, clone_ok) IN
               IF cl.ptr = NULL
               THEN /\ attribute_value' = [rel.av EXCEPT !.ptr = NULL]
                    /\ heap' = cl.heap
                    /\ UNCHANGED <<attribute_format, attribute_length_or_value,
                                   attribute_type>>
                    /\ last' = [op |-> "set_value", arg |-> value, ret |-> "OUT_OF_RES"]
               ELSE /\ attribute_value' = [ptr |-> cl.ptr, len |-> Len(value)]
                    /\ heap' = cl.heap
                    /\ attribute_length_or_value' = Len(value) % U16
                    /\ attribute_format' = FALSE
                    /\ UNCHANGED attribute_type
                    /\ last' = [op |-> "set_value", arg |-> value, ret |-> "SUCCESS"]
       ELSE /\ clone_ok
            /\ attribute_length_or_value' =
                   memcpy_u16(attribute_length_or_value, value, Len(value))
            /\ attribute_type' = 0
            /\ attribute_value' = rel.av
            /\ heap' = rel.heap
            /\ UNCHANGED attribute_format
            /\ last' = [op |-> "set_value", arg |-> value, ret |-> "SUCCESS"]
    /\ UNCHANGED <<alive, big_endian>>

set_value(value, clone_ok) ==
    /\ alive
    /\ LET rel == free_existing(attribute_value, heap) IN
       IF Len(value) > 2
       THEN /\ clone_ok => Len(heap) < MaxAllocs
            /\ LET cl == allocator_clone_bytes(rel.heap, value, clone_ok) IN
               IF cl.ptr = NULL
               THEN /\ attribute_value' = [rel.av EXCEPT !.ptr = NULL]
                    /\ heap' = cl.heap
                    /\ UNCHANGED <<attribute_format, attribute_length_or_value>>
                    /\ last' = [op |-> "set_value", arg |-> value, ret |-> "OUT_OF_RES"]
               ELSE /\ attribute_value' = [ptr |-> cl.ptr, len |-> Len(value)]
                    /\ heap' = cl.heap
                    /\ attribute_length_or_value' = Len(value) % U16
                    /\ attribute_format' = FALSE
                    /\ last' = [op |-> "set_value", arg |-> value, ret |-> "SUCCESS"]
       ELSE /\ clone_ok
            /\ attribute_length_or_value' =
                   memcpy_u16(attribute_length_or_value, value, Len(value))
            /\ attribute_value' = rel.av
            /\ heap' = rel.heap
            /\ UNCHANGED attribute_format
            /\ last' = [op |-> "set_value", arg |-> value, ret |-> "SUCCESS"]
    /\ UNCHANGED <<attribute_type, alive, big_endian>>

\* the type stored without the mask
MaskType_unmasked(type) == type

\* type & 0x7FFF
MaskType(type) == BitAnd(type, TYPE_MASK)

\* set_attribute_type that also resets the format flag
set_attribute_type_resets_format(type) ==
    /\ alive
    /\ attribute_type' = MaskType(type)
    /\ attribute_format' = TRUE
    /\ last' = [op |-> "set_attribute_type", arg |-> type, ret |-> "SUCCESS"]
    /\ UNCHANGED <<attribute_length_or_value, attribute_value,
                   heap, alive, big_endian>>

set_attribute_type(type) ==
    /\ alive
    /\ attribute_type' = MaskType(type)
    /\ last' = [op |-> "set_attribute_type", arg |-> type, ret |-> "SUCCESS"]
    /\ UNCHANGED <<attribute_format, attribute_length_or_value, attribute_value,
                   heap, alive, big_endian>>

\* what get_attribute_type returns
get_attribute_type == attribute_type

\* get_length without the test of the format flag
get_length_no_format_test == attribute_length_or_value + HEADER_LENGTH

\* what get_length returns
get_length ==
    IF attribute_format = TRUE
    THEN HEADER_LENGTH
    ELSE attribute_length_or_value + HEADER_LENGTH

\* the bytes of the chunk get_value returns, for the given fields
value_view(format, length_or_value, buffer) ==
    IF format = FALSE THEN buffer ELSE u16_bytes(length_or_value)

\* what get_value returns: the bytes its chunk refers to
get_value ==
    value_view(attribute_format, attribute_length_or_value, chunk_bytes(attribute_value))

\* what get_type returns
get_type == "TRANSFORM_ATTRIBUTE"

\* what get_next_type returns
get_next_type == "NO_PAYLOAD"

\* the rule table with the type rule before the format rule
transform_attribute_encodings_type_first ==
    << [type |-> "ATTRIBUTE_TYPE",            offset |-> "attribute_type"],
       [type |-> "ATTRIBUTE_FORMAT",          offset |-> "attribute_format"],
       [type |-> "ATTRIBUTE_LENGTH_OR_VALUE", offset |-> "attribute_length_or_value"],
       [type |-> "ATTRIBUTE_VALUE",           offset |-> "attribute_value"] >>

\* the rule table: the kind of each field and the field it is stored in
transform_attribute_encodings ==
    << [type |-> "ATTRIBUTE_FORMAT",          offset |-> "attribute_format"],
       [type |-> "ATTRIBUTE_TYPE",            offset |-> "attribute_type"],
       [type |-> "ATTRIBUTE_LENGTH_OR_VALUE", offset |-> "attribute_length_or_value"],
       [type |-> "ATTRIBUTE_VALUE",           offset |-> "attribute_value"] >>

\* what get_encoding_rules stores in *rules and *rule_count
get_encoding_rules ==
    [rules |-> transform_attribute_encodings,
     rule_count |-> Len(transform_attribute_encodings)]

\* a call of get_attribute_type: the attribute is read, nothing is written
call_get_attribute_type ==
    /\ alive
    /\ last' = [op |-> "get_attribute_type", arg |-> <<>>, ret |-> get_attribute_type]
    /\ UNCHANGED <<attribute_format, attribute_type, attribute_length_or_value,
                   attribute_value, heap, alive, big_endian>>

\* a call of get_length: the attribute is read, nothing is written
call_get_length ==
    /\ alive
    /\ last' = [op |-> "get_length", arg |-> <<>>, ret |-> get_length]
    /\ UNCHANGED <<attribute_format, attribute_type, attribute_length_or_value,
                   attribute_value, heap, alive, big_endian>>

\* a call of get_value: the attribute is read, nothing is written
call_get_value ==
    /\ alive
    /\ last' = [op |-> "get_value", arg |-> <<>>, ret |-> get_value]
    /\ UNCHANGED <<attribute_format, attribute_type, attribute_length_or_value,
                   attribute_value, heap, alive, big_endian>>

\* a call of get_type: the attribute is read, nothing is written
call_get_type ==
    /\ alive
    /\ last' = [op |-> "get_type", arg |-> <<>>, ret |-> get_type]
    /\ UNCHANGED <<attribute_format, attribute_type, attribute_length_or_value,
                   attribute_value, heap, alive, big_endian>>

\* a call of get_next_type: the attribute is read, nothing is written
call_get_next_type ==
    /\ alive
    /\ last' = [op |-> "get_next_type", arg |-> <<>>, ret |-> get_next_type]
    /\ UNCHANGED <<attribute_format, attribute_type, attribute_length_or_value,
                   attribute_value, heap, alive, big_endian>>

\* a call of get_encoding_rules: the attribute is read, nothing is written
call_get_encoding_rules ==
    /\ alive
    /\ last' = [op |-> "get_encoding_rules", arg |-> <<>>, ret |-> get_encoding_rules]
    /\ UNCHANGED <<attribute_format, attribute_type, attribute_length_or_value,
                   attribute_value, heap, alive, big_endian>>

(* --------------------- generator and parser --------------------------- *)

\* the w bits of n, most significant first
to_bits(n, w) == [i \in 1..w |-> (n \div (2 ^ (w - i))) % 2]

RECURSIVE from_bits(_)
\* the number whose bits, most significant first, are b
from_bits(b) ==
    IF b = <<>> THEN 0
    ELSE 2 * from_bits(SubSeq(b, 1, Len(b) - 1)) + b[Len(b)]

RECURSIVE bytes_to_bits(_)
bytes_to_bits(bytes) ==
    IF bytes = <<>> THEN <<>>
    ELSE to_bits(Head(bytes), 8) \o bytes_to_bits(Tail(bytes))

\* the bytes made of a multiple of 8 bits
bits_to_bytes(bits) ==
    [i \in 1..(Len(bits) \div 8) |-> from_bits(SubSeq(bits, 8 * i - 7, 8 * i))]

\* the fields of the attribute the rule table's offsets point at
this ==
    [attribute_format          |-> attribute_format,
     attribute_type            |-> attribute_type,
     attribute_length_or_value |-> attribute_length_or_value,
     attribute_value           |-> chunk_bytes(attribute_value)]

\* the bits one rule appends for the field it names
generate_rule(rule, a) ==
    CASE rule.type = "ATTRIBUTE_FORMAT" ->
            << IF a[rule.offset] THEN 1 ELSE 0 >>
      [] rule.type = "ATTRIBUTE_TYPE" ->
            to_bits(a[rule.offset] % (TYPE_MASK + 1), 15)
      [] rule.type = "ATTRIBUTE_LENGTH_OR_VALUE" ->
            to_bits(a[rule.offset], 16)
      [] rule.type = "ATTRIBUTE_VALUE" ->
            bytes_to_bits(a[rule.offset])

RECURSIVE generate_rules(_, _)
generate_rules(rules, a) ==
    IF rules = <<>> THEN <<>>
    ELSE generate_rule(Head(rules), a) \o generate_rules(Tail(rules), a)

\* encode: the wire bytes of the payload with fields a
generate_payload(a) ==
    bits_to_bytes(generate_rules(transform_attribute_encodings, a))

\* rule_bits whose value rule reads no byte, whatever length was declared
rule_bits_no_value(rule, a) ==
    CASE rule.type = "ATTRIBUTE_FORMAT" -> 1
      [] rule.type = "ATTRIBUTE_TYPE" -> 15
      [] rule.type = "ATTRIBUTE_LENGTH_OR_VALUE" -> 16
      [] rule.type = "ATTRIBUTE_VALUE" -> 0

\* the number of bits a rule reads, given the fields parsed before it
rule_bits(rule, a) ==
    CASE rule.type = "ATTRIBUTE_FORMAT" -> 1
      [] rule.type = "ATTRIBUTE_TYPE" -> 15
      [] rule.type = "ATTRIBUTE_LENGTH_OR_VALUE" -> 16
      [] rule.type = "ATTRIBUTE_VALUE" ->
            IF a.attribute_format = FALSE THEN 8 * a.attribute_length_or_value ELSE 0

\* the field value a rule makes of the bits it read
rule_value(rule, bits) ==
    CASE rule.type = "ATTRIBUTE_FORMAT" -> (bits[1] = 1)
      [] rule.type = "ATTRIBUTE_TYPE" -> from_bits(bits)
      [] rule.type = "ATTRIBUTE_LENGTH_OR_VALUE" -> from_bits(bits)
      [] rule.type = "ATTRIBUTE_VALUE" -> bits_to_bytes(bits)

RECURSIVE parse_rules(_, _, _, _)
parse_rules(rules, bits, a, clone_ok) ==
    IF rules = <<>> THEN [status |-> "SUCCESS", payload |-> a]
    ELSE LET rule == Head(rules)
             n == rule_bits(rule, a)
         IN IF Len(bits) < n
            THEN [status |-> "TruncatedInput"]
            ELSE IF rule.type = "ATTRIBUTE_VALUE" /\ n > 0 /\ ~clone_ok
            THEN [status |-> "OutOfMemory"]
            ELSE parse_rules(Tail(rules), SubSeq(bits, n + 1, Len(bits)),
                             [a EXCEPT ![rule.offset] = rule_value(rule, SubSeq(bits, 1, n))],
                             clone_ok)

\* decode: the payload parsed from the wire bytes into a fresh attribute
parse_payload(wire, clone_ok) ==
    parse_rules(transform_attribute_encodings, bytes_to_bits(wire),
                [attribute_format |-> TRUE, attribute_type |-> 0,
                 attribute_length_or_value |-> 0, attribute_value |-> <<>>],
                clone_ok)

\* the attribute is generated and the bytes are parsed into a second attribute
round_trip(clone_ok) ==
    /\ alive
    /\ last' = [op |-> "round_trip", arg |-> generate_payload(this),
                ret |-> parse_payload(generate_payload(this), clone_ok)]
    /\ UNCHANGED <<attribute_format, attribute_type, attribute_length_or_value,
                   attribute_value, heap, alive, big_endian>>

\* the types and the declared lengths of the byte sequences handed to the parser
WireTypes == {5, 32767}
WireLengths == 0..(MaxLen + 1)

\* the byte sequences handed to the parser: a header followed by value bytes,
\* as many as declared, fewer or more, and every prefix of such a sequence
Wires ==
    LET whole == { generate_payload([attribute_format |-> f, attribute_type |-> t,
                                     attribute_length_or_value |-> l,
                                     attribute_value |-> v]) :
                      f \in BOOLEAN, t \in WireTypes, l \in WireLengths, v \in Values }
    IN UNION { { SubSeq(w, 1, n) : n \in 0..Len(w) } : w \in whole }

\* decode into the attribute just created: on success its fields are those
\* parsed and it owns the buffer cloned for the value bytes; on an error the
\* attribute is released and no payload is returned
parse(wire, clone_ok) ==
    /\ alive
    /\ last.op = "create"
    /\ LET r == parse_payload(wire, clone_ok) IN
       IF r.status = "SUCCESS"
       THEN LET cl == IF r.payload.attribute_value = <<>>
                      THEN [ptr |-> NULL, heap |-> heap]
                      ELSE allocator_clone_bytes(heap, r.payload.attribute_value, TRUE)
            IN /\ attribute_format' = r.payload.attribute_format
               /\ attribute_type' = r.payload.attribute_type
               /\ attribute_length_or_value' = r.payload.attribute_length_or_value
               /\ attribute_value' = [ptr |-> cl.ptr,
                                      len |-> Len(r.payload.attribute_value)]
               /\ heap' = cl.heap
               /\ UNCHANGED alive
       ELSE /\ alive' = FALSE
            /\ UNCHANGED <<attribute_format, attribute_type,
                           attribute_length_or_value, attribute_value, heap>>
    /\ last' = [op |-> "parse", arg |-> wire,
                ret |-> parse_payload(wire, clone_ok).status]
    /\ UNCHANGED big_endian

destroy ==
    /\ alive
    /\ heap' = IF attribute_value.ptr # NULL
               THEN allocator_free(heap, attribute_value.ptr)
               ELSE heap
    /\ alive' = FALSE
    /\ last' = [op |-> "destroy", arg |-> <<>>, ret |-> "SUCCESS"]
    /\ UNCHANGED <<attribute_format, attribute_type, attribute_length_or_value,
                   attribute_value, big_endian>>

Next ==
    \/ \E v \in Values, ok \in BOOLEAN : set_value(v, ok)
    \/ \E t \in TypeVals : set_attribute_type(t)
    \/ call_get_attribute_type
    \/ call_get_length
    \/ call_get_value
    \/ call_get_type
    \/ call_get_next_type
    \/ call_get_encoding_rules
    \/ \E ok \in BOOLEAN : round_trip(ok)
    \/ destroy

Spec == Init /\ [][Next]_vars

\* the runs in which no allocation fails
NextNoFail ==
    \/ \E v \in Values : set_value(v, TRUE)
    \/ \E t \in TypeVals : set_attribute_type(t)
    \/ call_get_attribute_type
    \/ call_get_length
    \/ call_get_value
    \/ call_get_type
    \/ call_get_next_type
    \/ call_get_encoding_rules
    \/ round_trip(TRUE)
    \/ destroy

SpecNoFail == Init /\ [][NextNoFail]_vars

\* the parser at work on a newly created attribute
NextParse ==
    \/ \E w \in Wires, ok \in BOOLEAN : parse(w, ok)

SpecParse == Init /\ [][NextParse]_vars

(* ------------------------------ claims -------------------------------- *)

\* C1: a successful set_value(v) leaves the attribute in TV form
\* (attribute_format = TRUE) iff v.length <= 2 and in TLV form iff
\* v.length > 2, also when it was in TLV form before.
C1_ThresholdLaw ==
    (last.op = "set_value" /\ last.ret = "SUCCESS")
        => (attribute_format = TRUE <=> Len(last.arg) <= 2)

\* C2: in every state of a live attribute, attribute_format is TRUE exactly
\* when no value buffer is held, and FALSE exactly when a buffer of more
\* than 2 bytes is held.
C2_FormatIffNoBuffer ==
    alive =>
        /\ attribute_format = TRUE <=> attribute_value.ptr = NULL
        /\ attribute_format = FALSE <=>
               (attribute_value.ptr # NULL /\ attribute_value.len > 2)

\* C3: after a successful set_value(v) with v.length >= 2, get_value
\* returns exactly the bytes of v.
C3_SetGetRoundTrip ==
    (last.op = "set_value" /\ last.ret = "SUCCESS" /\ Len(last.arg) >= 2)
        => get_value = last.arg

\* C4: after a set_value that fails in the clone, the attribute is in TV
\* form with attribute_length_or_value = 0 and holds no buffer.
C4_FailureLeavesEmptyTV ==
    (last.op = "set_value" /\ last.ret = "OUT_OF_RES")
        => /\ attribute_format = TRUE
           /\ attribute_length_or_value = 0
           /\ attribute_value.ptr = NULL

\* C5: get_length returns 4 when the attribute is in TV form and
\* 4 + attribute_length_or_value when it is in TLV form.
C5_LengthConsistency ==
    last.op = "get_length" =>
        /\ attribute_format = TRUE => last.ret = 4
        /\ attribute_format = FALSE => last.ret = 4 + attribute_length_or_value

\* a get_length call answered in TLV form, with a buffer of 3 bytes held
C5_Witness ==
    /\ last.op = "get_length"
    /\ attribute_format = FALSE
    /\ attribute_value.len = 3
    /\ last.ret = 7

\* C6: after set_attribute_type(t), get_attribute_type returns t & 0x7FFF
\* (t without its bit 15), and the stored type is always in 0..32767.
C6_TypeMasking ==
    /\ attribute_type \in 0..32767
    /\ last.op = "set_attribute_type" =>
           /\ last.ret = "SUCCESS"
           /\ get_attribute_type =
                  IF last.arg >= 32768 THEN last.arg - 32768 ELSE last.arg

\* set_attribute_type(0x8005) has stored 5
C6_Witness ==
    /\ last.op = "set_attribute_type"
    /\ last.arg = 32773
    /\ attribute_type = 5

\* C7: no value buffer is ever freed twice, by set_value or by destroy.
C7_NoDoubleFree ==
    \A p \in 1..Len(heap) : heap[p].frees <= 1

\* destroy ran on an attribute whose buffer an earlier set_value had freed
C7_Witness ==
    /\ ~alive
    /\ attribute_value.ptr = NULL
    /\ \E p \in 1..Len(heap) : heap[p].frees = 1

\* C8: while the attribute lives, the live value buffers are exactly the one
\* attribute_value refers to (none if it is NULL); after destroy every
\* buffer set_value cloned has been freed exactly once.
C8_NoLeak ==
    LET held == {p \in 1..Len(heap) : heap[p].live} IN
    /\ alive => held = IF attribute_value.ptr = NULL THEN {} ELSE {attribute_value.ptr}
    /\ ~alive => \A p \in 1..Len(heap) : ~heap[p].live /\ heap[p].frees = 1

\* a second clone replaced the first buffer, and the attribute was destroyed
C8_Witness ==
    /\ ~alive
    /\ Len(heap) >= 2
    /\ attribute_value.ptr = Len(heap)

\* C9: generating an attribute built by create, set_attribute_type and
\* successful set_value calls and parsing the bytes yields an attribute with
\* the same format flag, the same type and the same value bytes.
C9_WireRoundTrip ==
    last.op = "round_trip" =>
        /\ last.ret.status = "SUCCESS"
        /\ last.ret.payload.attribute_format = attribute_format
        /\ last.ret.payload.attribute_type = attribute_type
        /\ value_view(last.ret.payload.attribute_format,
                      last.ret.payload.attribute_length_or_value,
                      last.ret.payload.attribute_value) = get_value

\* the functions that only read
ReadOps == {"get_value", "get_attribute_type", "get_length", "get_type",
            "get_next_type", "get_encoding_rules"}

\* C10: set_attribute_type and the read functions leave attribute_format,
\* attribute_length_or_value and the held buffer unchanged;
\* set_attribute_type changes attribute_type only.
C10_OnlySetValueSwitches ==
    [][ /\ last'.op \in ReadOps \cup {"set_attribute_type"} =>
              UNCHANGED <<attribute_format, attribute_length_or_value,
                          attribute_value, heap>>
        /\ last'.op \in ReadOps => UNCHANGED attribute_type ]_vars

\* set_attribute_type ran on an attribute in TLV form, which still holds its buffer
C10_Witness ==
    /\ last.op = "set_attribute_type"
    /\ attribute_type = 5
    /\ attribute_format = FALSE
    /\ attribute_value.ptr # NULL
    /\ attribute_length_or_value = attribute_value.len

\* C11: parsing a TLV form byte sequence that holds fewer bytes after its
\* 4 byte header than its length word declares fails with TruncatedInput,
\* and no value buffer has been allocated.
C11_TruncationHandling ==
    (/\ last.op = "parse"
     /\ Len(last.arg) >= 4
     /\ last.arg[1] < 128
     /\ Len(last.arg) - 4 < last.arg[3] * 256 + last.arg[4])
        => /\ last.ret = "TruncatedInput"
           /\ heap = <<>>
           /\ attribute_value.ptr = NULL

\* a header declaring 3 value bytes, followed by 2, was parsed
C11_Witness ==
    /\ last.op = "parse"
    /\ Len(last.arg) = 6
    /\ last.arg[1] < 128
    /\ last.arg[4] = 3
    /\ last.ret = "TruncatedInput"

\* C12: set_value releases the buffer held before it attempts the new
\* allocation: after a set_value that fails on allocation the attribute holds
\* no buffer, the buffer held before the call is freed, and the state is
\* not the state before the call.
C12_ReleaseBeforeAllocate ==
    [][ (last'.op = "set_value" /\ last'.ret = "OUT_OF_RES") =>
            /\ attribute_value' = [ptr |-> NULL, len |-> 0]
            /\ \A p \in 1..Len(heap') : ~heap'[p].live
            /\ attribute_value.ptr # NULL =>
                   /\ ~heap'[attribute_value.ptr].live
                   /\ attribute_value' # attribute_value
                   /\ get_value' # get_value ]_vars

\* a set_value failed on an attribute that held a buffer of 3 bytes
C12_Witness ==
    /\ last.op = "set_value"
    /\ last.ret = "OUT_OF_RES"
    /\ attribute_format = FALSE
    /\ attribute_length_or_value = 3
    /\ attribute_value.ptr = NULL
    /\ Len(heap) >= 1

\* C13: whenever the attribute is in TLV form, attribute_length_or_value is
\* the length of the held buffer, so get_length = 4 + the length of get_value.
C13_LengthMatchesBuffer ==
    (alive /\ attribute_format = FALSE) =>
        /\ attribute_length_or_value = attribute_value.len
        /\ get_length = 4 + Len(get_value)

\* C14: set_value(v) with v.length 0 or 1 writes the first v.length bytes of
\* the 16 bit field and leaves its other bytes as they were before the call.
C14_ShortValueKeepsRest ==
    [][ (last'.op = "set_value" /\ Len(last'.arg) <= 1) =>
            \A i \in 1..2 :
                u16_bytes(attribute_length_or_value')[i] =
                    IF i <= Len(last'.arg)
                    THEN last'.arg[i]
                    ELSE u16_bytes(attribute_length_or_value)[i] ]_vars

\* a 1 byte value was set and the second byte of the field is still not zero
C14_Witness ==
    /\ last.op = "set_value"
    /\ Len(last.arg) = 1
    /\ attribute_value.ptr = NULL
    /\ u16_bytes(attribute_length_or_value)[1] = last.arg[1]
    /\ u16_bytes(attribute_length_or_value)[2] # 0

\* C15: attribute_value.len = 0 exactly when attribute_value.ptr is NULL,
\* also after a set_value that failed.
C15_ChunkInvariant ==
    attribute_value.len = 0 <=> attribute_value.ptr = NULL

\* a failed set_value left the chunk {NULL, 0} after a buffer had been held
C15_Witness ==
    /\ last.op = "set_value"
    /\ last.ret = "OUT_OF_RES"
    /\ attribute_value = [ptr |-> NULL, len |-> 0]
    /\ \E p \in 1..Len(heap) : heap[p].frees = 1

\* C16: a newly created attribute is in TV form with type 0, value 0 and no
\* buffer; its get_length is 4 and its get_value is two zero bytes.
C16_CreateDefaults ==
    last.op = "create" =>
        /\ attribute_format = TRUE
        /\ attribute_type = 0
        /\ attribute_length_or_value = 0
        /\ attribute_value = [ptr |-> NULL, len |-> 0]
        /\ get_length = 4
        /\ get_value = <<0, 0>>

\* the attribute as transform_attribute_create returns it
C16_Witness ==
    /\ last.op = "create"
    /\ alive
    /\ heap = <<>>
    /\ get_attribute_type = 0

\* C17: set_value, whether it succeeds or fails, leaves attribute_type as it
\* was: get_attribute_type returns the same before and after the call.
C17_SetValueKeepsType ==
    [][ last'.op = "set_value" =>
            /\ attribute_type' = attribute_type
            /\ get_attribute_type' = get_attribute_type ]_vars

\* a set_value ran on an attribute of type 0x7FFF
C17_Witness ==
    /\ last.op = "set_value"
    /\ attribute_type = 32767

\* C18: get_encoding_rules always returns the table of exactly 4 rules in
\* wire order: format flag, type, length or value, value buffer.
C18_RuleTable ==
    last.op = "get_encoding_rules" =>
        /\ last.ret.rule_count = 4
        /\ Len(last.ret.rules) = 4
        /\ [i \in 1..4 |-> last.ret.rules[i].type] =
               <<"ATTRIBUTE_FORMAT", "ATTRIBUTE_TYPE",
                 "ATTRIBUTE_LENGTH_OR_VALUE", "ATTRIBUTE_VALUE">>
        /\ [i \in 1..4 |-> last.ret.rules[i].offset] =
               <<"attribute_format", "attribute_type",
                 "attribute_length_or_value", "attribute_value">>

\* get_encoding_rules was called on an attribute in TLV form
C18_Witness ==
    /\ last.op = "get_encoding_rules"
    /\ attribute_format = FALSE
    /\ attribute_value.ptr # NULL

====
